---- MODULE Spec2Model ----
(***************************************************************************)
(* CodeSync remote interview platform.                                     *)
(*                                                                         *)
(* Six independent pieces of the application are modelled, each with its   *)
(* own specification over the shared variables:                            *)
(*   SpecGate    - src/middleware.ts: the Next.js matcher and Clerk's      *)
(*                 authMiddleware({publicRoutes, ignoredRoutes})           *)
(*   SpecModal   - src/components/MeetingModal.tsx: handleStart            *)
(*   SpecEndCall - src/components/EndCallButton.tsx: render guard, endCall *)
(*   SpecRole    - useUserRole, DashboardBtn and the schedule page         *)
(*   SpecHydration - VideoPlayer and useIsClient, on server and browser    *)
(*   SpecMeeting - MeetingPage: loader, not found, setup, room             *)
(*                                                                         *)
(* Text (paths, the meeting URL) is a sequence of one-character strings,   *)
(* so that split("/"), prefix tests and the matcher's regular expression   *)
(* are computed character by character.                                    *)
(***************************************************************************)
EXTENDS Integers, Sequences, FiniteSets, TLC

VARIABLES
    \* ---- access gate (middleware.ts)
    gatePc,          \* "idle" | "pending" | "decided" | "done"
    request,         \* [path, cred] of the request being handled
    response,        \* what the gate answered: [kind, auth, reason]
    decisions,       \* number of times authMiddleware ran for this request
    appReached,      \* the request reached the application's rendering
    \* ---- meeting modal (MeetingModal.tsx)
    isOpen,          \* prop isOpen
    isJoinMeeting,   \* prop isJoinMeeting
    meetingUrl,      \* useState("")
    last,            \* what the latest click on the modal did
    \* ---- end-call control (EndCallButton.tsx)
    call,            \* useCall(): undefined or [id, createdBy]
    callEnded,       \* the video service has ended the call for everyone
    localParticipant,\* useLocalParticipant(): undefined or [userId]
    interview,       \* useQuery(...): undefined, null or [_id, status]
    interviewStatus, \* data store: interview id -> status
    inv,             \* the endCall invocations: slot -> [pc, by, creator, ...]
    route,           \* current client route
    toasts,          \* notifications shown, in order
    errorLog,        \* console.error calls, counted
    \* ---- role resolution (useUserRole) and its consumers
    user,            \* useUser().user: undefined, null or [id]
    userData,        \* useQuery(getUserByClerkId): undefined, null or record
    userRecords,     \* data store: clerk id -> user record, or none
    pathname,        \* the route the role-gated page tree is on
    pendingPush,     \* router.push("/") was called, navigation not done yet
    lastRender,      \* what SchedulePage returned when it last rendered
    \* ---- hydration-safe rendering (VideoPlayer, useIsClient)
    hydPc,           \* "request" | "server" | "client"
    props,           \* VideoPlayer's props: [src, className, ariaLabel]
    serverOutput,    \* what the server render produced
    clientFirst,     \* what the first render in the browser produced
    clientOutput,    \* what the browser shows now
    mounted,         \* VideoPlayer: useState(false)
    isClient,        \* useIsClient: useState(false)
    pendingEffects,  \* mount effects scheduled and not yet run
    \* ---- meeting page (MeetingPage)
    isLoaded,        \* useUser().isLoaded
    isCallLoading,   \* useGetCallById(id).isCallLoading
    meetingCall,     \* useGetCallById(id).call: undefined or [id]
    isSetupComplete, \* useState(false)
    meetingView,     \* what MeetingPage returned when it last rendered
    views            \* the views the page has shown, in order

gateVars  == <<gatePc, request, response, decisions, appReached>>
modalVars == <<isOpen, isJoinMeeting, meetingUrl, last>>
callVars  == <<call, callEnded, localParticipant, interview, interviewStatus,
               inv, route, toasts, errorLog>>
roleVars  == <<user, userData, userRecords, pathname, pendingPush,
               lastRender>>
hydVars   == <<hydPc, props, serverOutput, clientFirst, clientOutput, mounted,
               isClient, pendingEffects>>
meetVars  == <<isLoaded, isCallLoading, meetingCall, isSetupComplete,
               meetingView, views>>
vars      == <<gateVars, modalVars, callVars, roleVars, hydVars, meetVars>>

\* JavaScript's undefined and null, where a string is expected
Undefined == "undefined"
Null      == "null"

\* JavaScript's undefined and null, where an object is expected
UndefinedObject == [undefined |-> TRUE]
NullObject      == [null |-> TRUE]

----------------------------------------------------------------------------
(* Text helpers *)

StartsWith(s, p) == Len(s) >= Len(p) /\ SubSeq(s, 1, Len(p)) = p

\* s, from index i to its end
From(s, i) == SubSeq(s, i, Len(s))

Slash == <<"/">>

----------------------------------------------------------------------------
(* Access gate: the bounded set of request paths *)

MaxSegments == 2

Segments ==
    { <<"d", "a", "s", "h", "b", "o", "a", "r", "d">>,
      <<"s", "c", "h", "e", "d", "u", "l", "e">>,
      <<"m", "e", "e", "t", "i", "n", "g">>,
      <<"r", "e", "c", "o", "r", "d", "i", "n", "g", "s">>,
      <<"a", "p", "i">>,
      <<"t", "r", "p", "c">>,
      <<"w", "e", "b", "h", "o", "o", "k">>,
      <<"c", "o", "n", "v", "e", "x">>,
      <<"_", "n", "e", "x", "t">>,
      <<"p", "r", "o", "f", "i", "l", "e">>,
      <<"a", "b", "c", "1", "2", "3">>,
      <<"a", ".", "p", "n", "g">>,
      <<"d", ".", "j", "s", "o", "n">>,
      <<"x", ".", "j", "s">> }

\* "/" followed by n segments joined by "/"
RECURSIVE PathsOf(_)
PathsOf(n) ==
    IF n = 0 THEN { Slash }
    ELSE IF n = 1 THEN { Slash \o s : s \in Segments }
    ELSE { p \o Slash \o s : p \in PathsOf(n - 1), s \in Segments }

Paths == UNION { PathsOf(n) : n \in 0..MaxSegments }

\* The session credential a request carries
Credentials == { "absent", "malformed", "expired", "valid" }

UserId == "user_1"

----------------------------------------------------------------------------
(* middleware.ts: config.matcher *)

\* The alternatives of the extension group, each up to its optional tail:
\* html? css js(?!on) jpe?g webp png gif svg ttf woff2? ico csv docx? xlsx?
\* zip webmanifest.  The group is followed by .* so an optional last letter
\* (html?, woff2?, docx?, xlsx?) never changes the match.
StaticExtensions ==
    { <<"h", "t", "m">>, <<"c", "s", "s">>, <<"j", "p", "g">>,
      <<"j", "p", "e", "g">>, <<"w", "e", "b", "p">>, <<"p", "n", "g">>,
      <<"g", "i", "f">>, <<"s", "v", "g">>, <<"t", "t", "f">>,
      <<"w", "o", "f", "f">>, <<"i", "c", "o">>, <<"c", "s", "v">>,
      <<"d", "o", "c">>, <<"x", "l", "s">>, <<"z", "i", "p">>,
      <<"w", "e", "b", "m", "a", "n", "i", "f", "e", "s", "t">> }

\* (?:html?|css|js(?!on)|...) matched at the start of s
ExtensionAt(s) ==
    \/ \E e \in StaticExtensions : StartsWith(s, e)
    \/ StartsWith(s, <<"j", "s">>) /\ ~StartsWith(From(s, 3), <<"o", "n">>)

\* [^?]*\.(?:...) matched at the start of s
HasStaticExtension(s) ==
    \E i \in 1..Len(s) :
        /\ s[i] = "."
        /\ \A j \in 1..(i - 1) : s[j] # "?"
        /\ ExtensionAt(From(s, i + 1))

\* "/((?!_next|[^?]*\\.(?:...)).*)"
MatcherSkipStatic(path) ==
    /\ StartsWith(path, Slash)
    /\ ~StartsWith(Tail(path), <<"_", "n", "e", "x", "t">>)
    /\ ~HasStaticExtension(Tail(path))

\* "/(api|trpc)(.*)"
MatcherApi(path) ==
    \/ StartsWith(path, <<"/", "a", "p", "i">>)
    \/ StartsWith(path, <<"/", "t", "r", "p", "c">>)

\* Faulty variant of matcher: only the first entry is consulted
matcherFirstEntry(path) == MatcherSkipStatic(path)

\* config.matcher: the middleware runs when any entry matches
matcher(path) == MatcherSkipStatic(path) \/ MatcherApi(path)

----------------------------------------------------------------------------
(* middleware.ts: authMiddleware({ publicRoutes, ignoredRoutes }) *)

\* Faulty variant of publicRoutes: the root is not listed
noPublicRoutes == {}

publicRoutes == { Slash }

ignoredRoutes ==
    { <<"/", "a", "p", "i", "/", "w", "e", "b", "h", "o", "o", "k">>,
      <<"/", "a", "p", "i", "/", "c", "o", "n", "v", "e", "x">> }

\* A route given as a plain string matches the path equal to it
isPublicRoute(path)  == \E r \in publicRoutes  : path = r
isIgnoredRoute(path) == \E r \in ignoredRoutes : path = r

\* authMiddleware's default apiRoutes: "/api/(.*)" and "/trpc/(.*)"
isApiRoute(path) ==
    \/ StartsWith(path, <<"/", "a", "p", "i", "/">>)
    \/ StartsWith(path, <<"/", "t", "r", "p", "c", "/">>)

\* Faulty variant of authenticateRequest: the expiry is not checked
authenticateRequestIgnoresExpiry(cred) ==
    IF cred \in {"valid", "expired"} THEN UserId ELSE Null

\* The session check: only a valid credential yields a user id
authenticateRequest(cred) == IF cred = "valid" THEN UserId ELSE Null

Forward(auth, reason) == [kind |-> "next", auth |-> auth, reason |-> reason]

\* Faulty variants of authMiddleware, used to show that the properties below
\* depend on it: the ignored routes tested after the session check; a
\* signed-in request redirected on a route that is not public.
authMiddlewareIgnoredLast(path, cred) ==
    LET userId == authenticateRequest(cred) IN
    IF userId = Null /\ ~isPublicRoute(path)
    THEN IF isApiRoute(path)
         THEN [kind |-> "unauthorized", auth |-> Null, reason |-> "protected"]
         ELSE [kind |-> "redirect", auth |-> Null, reason |-> "protected"]
    ELSE IF isIgnoredRoute(path) THEN Forward(userId, "ignored-route")
    ELSE Forward(userId, "authenticated")

authMiddlewareRedirectsSignedIn(path, cred) ==
    LET userId == authenticateRequest(cred) IN
    IF isIgnoredRoute(path) THEN Forward(Undefined, "ignored-route")
    ELSE IF userId = Null
    THEN IF isApiRoute(path)
         THEN [kind |-> "unauthorized", auth |-> Null, reason |-> "protected"]
         ELSE [kind |-> "redirect", auth |-> Null, reason |-> "protected"]
    ELSE IF isPublicRoute(path) THEN Forward(userId, "authenticated")
    ELSE [kind |-> "redirect", auth |-> userId, reason |-> "protected"]

\* authMiddleware without beforeAuth/afterAuth: an ignored route is passed on
\* before any session check; otherwise the session is checked and a signed-out
\* request for a route that is not public is answered without the application
\* (401 for an API route, a redirect to sign-in for a page).
authMiddleware(path, cred) ==
    IF isIgnoredRoute(path) THEN Forward(Undefined, "ignored-route")
    ELSE LET userId == authenticateRequest(cred) IN
         IF userId = Null /\ ~isPublicRoute(path)
         THEN IF isApiRoute(path)
              THEN [kind |-> "unauthorized", auth |-> Null, reason |-> "protected"]
              ELSE [kind |-> "redirect", auth |-> Null, reason |-> "protected"]
         ELSE Forward(userId, "authenticated")

NoRequest  == [path |-> <<>>, cred |-> "absent"]
NoResponse == [kind |-> "none", auth |-> Undefined, reason |-> "none"]

\* A request arrives
Receive(path, cred) ==
    /\ gatePc = "idle"
    /\ gatePc' = "pending"
    /\ request' = [path |-> path, cred |-> cred]
    /\ response' = NoResponse
    /\ decisions' = 0
    /\ appReached' = FALSE
    /\ UNCHANGED <<modalVars, callVars, roleVars, hydVars,
                   meetVars>>

\* The matcher selects the request: the middleware decides it, once
RunMiddleware ==
    /\ gatePc = "pending"
    /\ matcher(request.path)
    /\ response' = authMiddleware(request.path, request.cred)
    /\ decisions' = decisions + 1
    /\ gatePc' = "decided"
    /\ UNCHANGED <<request, appReached, modalVars, callVars, roleVars, hydVars,
                   meetVars>>

\* The matcher does not select the request: no middleware runs
SkipMiddleware ==
    /\ gatePc = "pending"
    /\ ~matcher(request.path)
    /\ response' = [kind |-> "next", auth |-> Undefined, reason |-> "unmatched"]
    /\ gatePc' = "decided"
    /\ UNCHANGED <<request, decisions, appReached, modalVars, callVars, roleVars, hydVars,
                   meetVars>>

\* The answer takes effect: a forwarded request is rendered by the application
Respond ==
    /\ gatePc = "decided"
    /\ appReached' = (response.kind = "next")
    /\ gatePc' = "done"
    /\ UNCHANGED <<request, response, decisions, modalVars, callVars, roleVars, hydVars,
                   meetVars>>

\* The request is over; the gate keeps nothing from it
Finish ==
    /\ gatePc = "done"
    /\ gatePc' = "idle"
    /\ request' = NoRequest
    /\ response' = NoResponse
    /\ decisions' = 0
    /\ appReached' = FALSE
    /\ UNCHANGED <<modalVars, callVars, roleVars, hydVars,
                   meetVars>>

\* The protected patterns of the route documentation:
\* "/dashboard(.*)", "/schedule(.*)", "/meeting(.*)", "/recordings(.*)"
isProtectedRoute(path) ==
    \/ StartsWith(path, <<"/", "d", "a", "s", "h", "b", "o", "a", "r", "d">>)
    \/ StartsWith(path, <<"/", "s", "c", "h", "e", "d", "u", "l", "e">>)
    \/ StartsWith(path, <<"/", "m", "e", "e", "t", "i", "n", "g">>)
    \/ StartsWith(path, <<"/", "r", "e", "c", "o", "r", "d", "i", "n", "g", "s">>)

----------------------------------------------------------------------------
(* MeetingModal.tsx *)

MaxLen == 3

Alphabet == { "a", "b", "/", " " }

RECURSIVE TextsOf(_)
TextsOf(n) ==
    IF n = 0 THEN { <<>> }
    ELSE { Append(t, c) : t \in TextsOf(n - 1), c \in Alphabet }

\* What can be typed or pasted into the input
Texts == UNION { TextsOf(n) : n \in 0..MaxLen }

\* String.prototype.split(sep) for a one-character separator
RECURSIVE split(_, _)
split(s, sep) ==
    IF \A i \in 1..Len(s) : s[i] # sep THEN << s >>
    ELSE LET i == CHOOSE k \in 1..Len(s) :
                      s[k] = sep /\ \A j \in 1..(k - 1) : s[j] # sep
         IN << SubSeq(s, 1, i - 1) >> \o split(From(s, i + 1), sep)

\* Faulty variant of pop: the first element (shift) instead of the last
shift(parts) == parts[1]

\* Array.prototype.pop(): the last element (split never yields an empty array)
pop(parts) == parts[Len(parts)]

\* Faulty variant of Truthy: tests the value against undefined only
IsDefined(s) == TRUE

\* Truthiness of a string: the empty string is falsy
Truthy(s) == s # <<>>

IsSpace(c) == c = " "

\* String.prototype.trim()
RECURSIVE trim(_)
trim(s) ==
    IF s = <<>> THEN s
    ELSE IF IsSpace(s[1]) THEN trim(Tail(s))
    ELSE IF IsSpace(s[Len(s)]) THEN trim(SubSeq(s, 1, Len(s) - 1))
    ELSE s

Effect(op, args) == [op |-> op, args |-> args]

ValidationMessage == << "Please enter a valid meeting URL." >>

\* Faulty variant of handleStart: a failed validation returns at once
handleStartReturnsOnInvalid(join, url) ==
    IF join /\ ~Truthy(pop(split(url, "/")))
    THEN << Effect("alert", << ValidationMessage >>) >>
    ELSE ( IF join
           THEN << Effect("joinMeeting", << pop(split(url, "/")) >>) >>
           ELSE << Effect("createInstantMeeting", <<>>) >> )
         \o << Effect("setMeetingUrl", << <<>> >>), Effect("onClose", <<>>) >>

\* Faulty variant of handleStart: the branch is chosen by the text, not the mode
handleStartByText(join, url) ==
    ( IF Truthy(url)
      THEN LET meetingId == pop(split(url, "/")) IN
           IF Truthy(meetingId)
           THEN << Effect("joinMeeting", << meetingId >>) >>
           ELSE << Effect("alert", << ValidationMessage >>) >>
      ELSE << Effect("createInstantMeeting", <<>>) >> )
    \o << Effect("setMeetingUrl", << <<>> >>), Effect("onClose", <<>>) >>

\* handleStart: the calls it makes, in order
handleStart(join, url) ==
    ( IF join
      THEN LET meetingId == pop(split(url, "/")) IN
           IF Truthy(meetingId)
           THEN << Effect("joinMeeting", << meetingId >>) >>
           ELSE << Effect("alert", << ValidationMessage >>) >>
      ELSE << Effect("createInstantMeeting", <<>>) >> )
    \o << Effect("setMeetingUrl", << <<>> >>), Effect("onClose", <<>>) >>

\* disabled={isJoinMeeting && !meetingUrl.trim()}
StartDisabled == isJoinMeeting /\ ~Truthy(trim(meetingUrl))

NoClick == [handler |-> "none", join |-> FALSE, url |-> <<>>, effects |-> <<>>]

\* The parent shows the modal in one of its two modes
Open(join) ==
    /\ ~isOpen
    /\ isOpen' = TRUE
    /\ isJoinMeeting' = join
    /\ UNCHANGED <<meetingUrl, last, gateVars, callVars, roleVars, hydVars,
                   meetVars>>

\* One edit of the input's text: a character typed at the end, or the last
\* character deleted
OneEdit(old, new) ==
    \/ Len(new) = Len(old) + 1 /\ SubSeq(new, 1, Len(old)) = old
    \/ Len(old) = Len(new) + 1 /\ SubSeq(old, 1, Len(new)) = new

\* onChange of the input, which exists in join mode only
OnChange(text) ==
    /\ isOpen
    /\ isJoinMeeting
    /\ OneEdit(meetingUrl, text)
    /\ meetingUrl' = text
    /\ UNCHANGED <<isOpen, isJoinMeeting, last, gateVars, callVars, roleVars, hydVars,
                   meetVars>>

\* Click on "Join Interview" / "Start Interview"
ClickStart ==
    /\ isOpen
    /\ ~StartDisabled
    /\ last' = [handler |-> "handleStart", join |-> isJoinMeeting,
                url |-> meetingUrl,
                effects |-> handleStart(isJoinMeeting, meetingUrl)]
    /\ meetingUrl' = <<>>
    /\ isOpen' = FALSE
    /\ UNCHANGED <<isJoinMeeting, gateVars, callVars, roleVars, hydVars,
                   meetVars>>

\* Faulty variant of Cancel: closing the modal also resets the text
CancelClearsText ==
    /\ isOpen
    /\ last' = [handler |-> "onClose", join |-> isJoinMeeting,
                url |-> meetingUrl, effects |-> << Effect("onClose", <<>>) >>]
    /\ isOpen' = FALSE
    /\ meetingUrl' = <<>>
    /\ UNCHANGED <<isJoinMeeting, gateVars, callVars, roleVars, hydVars,
                   meetVars>>

\* Click on "Cancel", or the dialog dismissed: onClose
Cancel ==
    /\ isOpen
    /\ last' = [handler |-> "onClose", join |-> isJoinMeeting,
                url |-> meetingUrl, effects |-> << Effect("onClose", <<>>) >>]
    /\ isOpen' = FALSE
    /\ UNCHANGED <<isJoinMeeting, meetingUrl, gateVars, callVars, roleVars, hydVars,
                   meetVars>>

----------------------------------------------------------------------------
(* EndCallButton.tsx *)

MaxInvocations == 2

Users == { "u1", "u2" }

CallId      == "call_1"
InterviewId == "interview_1"

\* The interview records of the data store: the call's, and another call's
OtherInterviewId == "interview_2"
InterviewIds     == { InterviewId, OtherInterviewId }
Statuses         == { "scheduled", "completed" }

\* localParticipant?.userId
participantUserId == IF localParticipant = UndefinedObject THEN Undefined
                     ELSE localParticipant.userId

\* call.state.createdBy?.id
createdById == IF call.createdBy = UndefinedObject THEN Undefined
               ELSE call.createdBy.id

\* Faulty variant of isMeetingOwner: any resolved participant is the owner
isAnyParticipant == localParticipant # UndefinedObject

\* const isMeetingOwner = localParticipant?.userId === call.state.createdBy?.id
isMeetingOwner == participantUserId = createdById

\* Faulty variant of EndCallButton: only a loading query is waited for
EndCallButtonWhileNull ==
    IF call = UndefinedObject \/ interview = UndefinedObject THEN Null
    ELSE IF ~isMeetingOwner THEN Null
    ELSE "EndMeetingButton"

\* What the component returns: Null (nothing) or the End Meeting button
EndCallButton ==
    IF call = UndefinedObject \/ interview \in {UndefinedObject, NullObject}
    THEN Null
    ELSE IF ~isMeetingOwner THEN Null
    ELSE "EndMeetingButton"

Rendered == EndCallButton = "EndMeetingButton"

NoMutation == [id |-> Undefined, status |-> Undefined]

\* An invocation of endCall: where it stands, who clicked (by, creator: the
\* two ids the render compared), the interview._id its closure holds, the
\* calls it has made so far, the mutation it requested, and the state of the
\* promise the async function returned
IdleInvocation == [pc |-> "idle", by |-> Undefined, creator |-> Undefined,
                   target |-> Undefined, steps |-> <<>>,
                   mutation |-> NoMutation, promise |-> "none"]

\* ---- what the hooks deliver

\* useCall() resolves to the call, whose state may not yet name its creator
CallResolves(creator) ==
    /\ call = UndefinedObject
    /\ call' = [id |-> CallId, createdBy |-> creator]
    /\ UNCHANGED <<callEnded, localParticipant, interview, interviewStatus, inv,
                   route, toasts, errorLog, gateVars, modalVars, roleVars, hydVars,
                   meetVars>>

\* call.state.createdBy is filled in once the call's state is loaded
CreatedByLoads(u) ==
    /\ call # UndefinedObject
    /\ call.createdBy = UndefinedObject
    /\ call' = [call EXCEPT !.createdBy = [id |-> u]]
    /\ UNCHANGED <<callEnded, localParticipant, interview, interviewStatus, inv,
                   route, toasts, errorLog, gateVars, modalVars, roleVars, hydVars,
                   meetVars>>

\* useLocalParticipant(): the local user joins as u, or leaves
ParticipantChanges(p) ==
    /\ localParticipant # p
    /\ localParticipant' = p
    /\ UNCHANGED <<call, callEnded, interview, interviewStatus, inv, route,
                   toasts, errorLog, gateVars, modalVars, roleVars, hydVars,
                   meetVars>>

\* useQuery delivers the current result for streamCallId: call?.id || "".
\* No record is stored under "", and a record may not exist for the call.
QueryDelivers(found) ==
    /\ interview' = IF call = UndefinedObject \/ ~found THEN NullObject
                    ELSE [_id |-> InterviewId,
                          status |-> interviewStatus[InterviewId]]
    /\ interview' # interview
    /\ UNCHANGED <<call, callEnded, localParticipant, interviewStatus, inv,
                   route, toasts, errorLog, gateVars, modalVars, roleVars, hydVars,
                   meetVars>>

\* The query is loading again (its argument changed, or the client reconnects)
QueryLoading ==
    /\ interview # UndefinedObject
    /\ interview' = UndefinedObject
    /\ UNCHANGED <<call, callEnded, localParticipant, interviewStatus, inv,
                   route, toasts, errorLog, gateVars, modalVars, roleVars, hydVars,
                   meetVars>>

\* Another client writes a record's status (the dashboard's
\* handleStatusUpdate: await updateStatus({ id, status }))
DashboardUpdatesStatus(id, status) ==
    /\ interviewStatus[id] # status
    /\ interviewStatus' = [interviewStatus EXCEPT ![id] = status]
    /\ UNCHANGED <<call, callEnded, localParticipant, interview, inv, route,
                   toasts, errorLog, gateVars, modalVars, roleVars, hydVars,
                   meetVars>>

\* ---- endCall

\* Faulty variant of Click: the closure holds another record's id
ClickOtherRecord(i) ==
    /\ Rendered
    /\ inv[i].pc = "idle"
    /\ \A j \in 1..(i - 1) : inv[j].pc # "idle"
    /\ inv' = [inv EXCEPT ![i] = [pc |-> "awaitEndCall",
                                  by |-> participantUserId,
                                  creator |-> createdById,
                                  target |-> OtherInterviewId,
                                  steps |-> << "call.endCall" >>,
                                  mutation |-> NoMutation,
                                  promise |-> "pending"]]
    /\ UNCHANGED <<call, callEnded, localParticipant, interview,
                   interviewStatus, route, toasts, errorLog, gateVars,
                   modalVars, roleVars, hydVars,
                   meetVars>>

\* onClick={endCall}: await call.endCall() is issued
Click(i) ==
    /\ Rendered
    /\ inv[i].pc = "idle"
    /\ \A j \in 1..(i - 1) : inv[j].pc # "idle"
    /\ inv' = [inv EXCEPT ![i] = [pc |-> "awaitEndCall",
                                  by |-> participantUserId,
                                  creator |-> createdById,
                                  target |-> interview._id,
                                  steps |-> << "call.endCall" >>,
                                  mutation |-> NoMutation,
                                  promise |-> "pending"]]
    /\ UNCHANGED <<call, callEnded, localParticipant, interview,
                   interviewStatus, route, toasts, errorLog, gateVars,
                   modalVars, roleVars, hydVars,
                   meetVars>>

\* Faulty variant of EndCallResolves: navigates without awaiting the mutation
EndCallResolvesNavigates(i) ==
    /\ inv[i].pc = "awaitEndCall"
    /\ callEnded' = TRUE
    /\ route' = "/"
    /\ inv' = [inv EXCEPT ![i].pc = "awaitMutation",
                          ![i].steps = @ \o << "call.endCall:resolved",
                                               "updateInterviewStatus",
                                               "router.push" >>,
                          ![i].mutation = [id |-> inv[i].target,
                                           status |-> "completed"]]
    /\ UNCHANGED <<call, localParticipant, interview, interviewStatus,
                   toasts, errorLog, gateVars, modalVars, roleVars, hydVars,
                   meetVars>>

\* call.endCall() resolves; await updateInterviewStatus({id, status}) is issued
EndCallResolves(i) ==
    /\ inv[i].pc = "awaitEndCall"
    /\ callEnded' = TRUE
    /\ inv' = [inv EXCEPT ![i].pc = "awaitMutation",
                          ![i].steps = @ \o << "call.endCall:resolved",
                                               "updateInterviewStatus" >>,
                          ![i].mutation = [id |-> inv[i].target,
                                           status |-> "completed"]]
    /\ UNCHANGED <<call, localParticipant, interview, interviewStatus, route,
                   toasts, errorLog, gateVars, modalVars, roleVars, hydVars,
                   meetVars>>

\* Faulty variant of EndCallRejects: the error is logged and nothing is shown
EndCallRejectsSilently(i) ==
    /\ inv[i].pc = "awaitEndCall"
    /\ errorLog' = errorLog + 1
    /\ inv' = [inv EXCEPT ![i].pc = "failed",
                          ![i].steps = @ \o << "call.endCall:rejected",
                                               "console.error" >>,
                          ![i].promise = "fulfilled"]
    /\ UNCHANGED <<call, callEnded, localParticipant, interview,
                   interviewStatus, route, toasts, gateVars, modalVars,
                   roleVars, hydVars, meetVars>>

\* Faulty variant of EndCallRejects: the request is issued again
EndCallRejectsRetries(i) ==
    /\ inv[i].pc = "awaitEndCall"
    /\ Len(inv[i].steps) < 4
    /\ inv' = [inv EXCEPT ![i].steps = @ \o << "call.endCall:rejected",
                                               "call.endCall" >>]
    /\ UNCHANGED <<call, callEnded, localParticipant, interview,
                   interviewStatus, route, toasts, errorLog, gateVars,
                   modalVars, roleVars, hydVars,
                   meetVars>>

\* call.endCall() rejects: catch, console.error, toast.error
EndCallRejects(i) ==
    /\ inv[i].pc = "awaitEndCall"
    /\ errorLog' = errorLog + 1
    /\ toasts' = Append(toasts, "error")
    /\ inv' = [inv EXCEPT ![i].pc = "failed",
                          ![i].steps = @ \o << "call.endCall:rejected",
                                               "console.error",
                                               "toast.error" >>,
                          ![i].promise = "fulfilled"]
    /\ UNCHANGED <<call, callEnded, localParticipant, interview,
                   interviewStatus, route, gateVars, modalVars, roleVars, hydVars,
                   meetVars>>

\* the mutation resolves: the record's status is written; router.push("/");
\* toast.success
MutationResolves(i) ==
    /\ inv[i].pc = "awaitMutation"
    /\ interviewStatus' = [interviewStatus EXCEPT
                               ![inv[i].mutation.id] = inv[i].mutation.status]
    /\ route' = "/"
    /\ toasts' = Append(toasts, "success")
    /\ inv' = [inv EXCEPT ![i].pc = "done",
                          ![i].steps = @ \o << "updateInterviewStatus:resolved",
                                               "router.push",
                                               "toast.success" >>,
                          ![i].promise = "fulfilled"]
    /\ UNCHANGED <<call, callEnded, localParticipant, interview, errorLog,
                   gateVars, modalVars, roleVars, hydVars,
                   meetVars>>

\* Faulty variant of MutationRejects: no catch, and the call is reopened
MutationRejectsUncaught(i) ==
    /\ inv[i].pc = "awaitMutation"
    /\ callEnded' = FALSE
    /\ inv' = [inv EXCEPT ![i].pc = "failed",
                          ![i].steps = @ \o << "updateInterviewStatus:rejected" >>,
                          ![i].promise = "rejected"]
    /\ UNCHANGED <<call, localParticipant, interview, interviewStatus, route,
                   toasts, errorLog, gateVars, modalVars, roleVars, hydVars,
                   meetVars>>

\* the mutation rejects: catch, console.error, toast.error
MutationRejects(i) ==
    /\ inv[i].pc = "awaitMutation"
    /\ errorLog' = errorLog + 1
    /\ toasts' = Append(toasts, "error")
    /\ inv' = [inv EXCEPT ![i].pc = "failed",
                          ![i].steps = @ \o << "updateInterviewStatus:rejected",
                                               "console.error",
                                               "toast.error" >>,
                          ![i].promise = "fulfilled"]
    /\ UNCHANGED <<call, callEnded, localParticipant, interview,
                   interviewStatus, route, gateVars, modalVars, roleVars, hydVars,
                   meetVars>>


(* useUserRole, DashboardBtn, SchedulePage *)

Roles == { "interviewer", "candidate" }

\* A clerk id with no user record in the data store
NoRecord == [none |-> TRUE]

UserRecords == { [clerkId |-> u, role |-> r] : u \in Users, r \in Roles }

\* clerkId: user?.id || ""
clerkId == IF user \in {UndefinedObject, NullObject} THEN "" ELSE user.id

\* api.users.getUserByClerkId: the record stored under the clerk id, or null
getUserByClerkId(id) ==
    IF id \in Users /\ userRecords[id] # NoRecord THEN userRecords[id]
    ELSE NullObject

\* userData?.role
userDataRole == IF userData \in {UndefinedObject, NullObject} THEN Undefined
                ELSE userData.role

\* What the hook returns
useUserRole ==
    [ isLoading     |-> userData = UndefinedObject,
      isInterviewer |-> userDataRole = "interviewer",
      isCandidate   |-> userDataRole = "candidate" ]

\* if (isCandidate || isLoading) return null; else the link to /dashboard
DashboardBtn ==
    IF useUserRole.isCandidate \/ useUserRole.isLoading THEN Null
    ELSE "Link(/dashboard)"

\* Faulty variant of SchedulePage: the loading state is not waited for
SchedulePageNoLoader ==
    IF ~useUserRole.isInterviewer THEN "router.push(/)"
    ELSE "InterviewScheduleUI"

\* Faulty variant of SchedulePage: only candidates are sent away
SchedulePageCandidatesOnly ==
    IF useUserRole.isLoading THEN "LoaderUI"
    ELSE IF useUserRole.isCandidate THEN "router.push(/)"
    ELSE "InterviewScheduleUI"

\* What a render of the schedule page returns; "router.push(/)" is the
\* render that calls router.push("/") and returns its (empty) result
SchedulePage ==
    IF useUserRole.isLoading THEN "LoaderUI"
    ELSE IF ~useUserRole.isInterviewer THEN "router.push(/)"
    ELSE "InterviewScheduleUI"

\* The components re-render with the hook's new values; a page that is not
\* on screen does not render
Rerender ==
    IF pathname = "/schedule"
    THEN /\ lastRender' = SchedulePage'
         /\ pendingPush' = (pendingPush \/ SchedulePage' = "router.push(/)")
    ELSE UNCHANGED <<lastRender, pendingPush,
                   meetVars>>

\* useUser() delivers: the identity is loaded (signed in as u, or signed
\* out), or the session changes. New arguments restart the query.
UserChanges(u) ==
    /\ u # UndefinedObject
    /\ user # u
    /\ user' = u
    /\ userData' = IF clerkId' = clerkId THEN userData ELSE UndefinedObject
    /\ Rerender
    /\ UNCHANGED <<userRecords, pathname, gateVars, modalVars, callVars,
                   hydVars,
                   meetVars>>

\* useQuery delivers the query's current result
UserQueryDelivers ==
    /\ userData # getUserByClerkId(clerkId)
    /\ userData' = getUserByClerkId(clerkId)
    /\ user' = user
    /\ Rerender
    /\ UNCHANGED <<userRecords, pathname, gateVars, modalVars, callVars,
                   hydVars,
                   meetVars>>

\* The data store: a user record is created on first sign-in, or its role
\* is changed administratively
RecordWritten(u, r) ==
    /\ userRecords[u] # [clerkId |-> u, role |-> r]
    /\ userRecords' = [userRecords EXCEPT ![u] = [clerkId |-> u, role |-> r]]
    /\ UNCHANGED <<user, userData, pathname, pendingPush, lastRender,
                   gateVars, modalVars, callVars, hydVars,
                   meetVars>>

\* The user opens /schedule: the page mounts and renders
VisitSchedule ==
    /\ pathname # "/schedule"
    /\ pathname' = "/schedule"
    /\ lastRender' = SchedulePage
    /\ pendingPush' = (SchedulePage = "router.push(/)")
    /\ UNCHANGED <<user, userData, userRecords, gateVars, modalVars,
                   callVars, hydVars,
                   meetVars>>

\* The navigation started by router.push("/") completes: the page unmounts
NavigationCompletes ==
    /\ pendingPush
    /\ pathname' = "/"
    /\ pendingPush' = FALSE
    /\ lastRender' = "unmounted"
    /\ UNCHANGED <<user, userData, userRecords, gateVars, modalVars,
                   callVars, hydVars,
                   meetVars>>

(* VideoPlayer, useIsClient *)

\* The environments a component renders in
Environments == { "server", "client" }

Sources    == { "/demo.mp4", "/intro.mp4" }
ClassNames == { Undefined, "w-full" }
AriaLabels == { Undefined, "Product demo" }

VideoPlayerProps == [ src : Sources, className : ClassNames,
                      ariaLabel : AriaLabels ]

NoProps  == [none |-> TRUE]
NoOutput == [none |-> TRUE]

PlaceholderClasses ==
    "bg-gray-200 dark:bg-gray-800 animate-pulse flex items-center justify-center"

\* Faulty variant of useStateInitial: the state starts from the environment
useStateByWindow(env) == env = "client"

\* useState(false): the initial state, whatever the environment
useStateInitial(env) == FALSE

\* What VideoPlayer returns for props p when its state is m
VideoPlayer(p, m) ==
    IF ~m
    THEN [ tag |-> "div", src |-> Undefined,
           className |-> << p.className, PlaceholderClasses >>,
           ariaLabel |-> "Loading video..." ]
    ELSE [ tag |-> "video", src |-> p.src,
           className |-> << p.className >>,
           ariaLabel |-> p.ariaLabel ]

\* What a render produces: VideoPlayer's element, and useIsClient's value
Render(p, m, c) == [ video |-> VideoPlayer(p, m), isClient |-> c ]

\* The server renders the page; effects do not run on the server
ServerRender(p) ==
    /\ hydPc = "request"
    /\ hydPc' = "server"
    /\ props' = p
    /\ serverOutput' = Render(p, useStateInitial("server"),
                              useStateInitial("server"))
    /\ UNCHANGED <<clientFirst, clientOutput, mounted, isClient,
                   pendingEffects, gateVars, modalVars, callVars, roleVars,
                   meetVars>>

\* The first render in the browser, with the props the server used: the
\* two states are created and the two mount effects are scheduled
Hydrate ==
    /\ hydPc = "server"
    /\ hydPc' = "client"
    /\ mounted' = useStateInitial("client")
    /\ isClient' = useStateInitial("client")
    /\ clientFirst' = Render(props, mounted', isClient')
    /\ clientOutput' = clientFirst'
    /\ pendingEffects' = { "VideoPlayer", "useIsClient" }
    /\ UNCHANGED <<props, serverOutput, gateVars, modalVars, callVars,
                   roleVars,
                   meetVars>>

\* The components mount in the browser without a server render (a client
\* side navigation)
ClientMount(p) ==
    /\ hydPc = "request"
    /\ hydPc' = "client"
    /\ props' = p
    /\ mounted' = useStateInitial("client")
    /\ isClient' = useStateInitial("client")
    /\ clientFirst' = Render(p, mounted', isClient')
    /\ clientOutput' = clientFirst'
    /\ pendingEffects' = { "VideoPlayer", "useIsClient" }
    /\ UNCHANGED <<serverOutput, gateVars, modalVars, callVars, roleVars,
                   meetVars>>

\* useEffect(() => { setMounted(true) }, []) of VideoPlayer, or
\* useEffect(() => { setIsClient(true) }, []) of useIsClient, runs; the
\* component renders again
RunEffect(e) ==
    /\ e \in pendingEffects
    /\ pendingEffects' = pendingEffects \ {e}
    /\ mounted' = IF e = "VideoPlayer" THEN TRUE ELSE mounted
    /\ isClient' = IF e = "useIsClient" THEN TRUE ELSE isClient
    /\ clientOutput' = Render(props, mounted', isClient')
    /\ UNCHANGED <<hydPc, props, serverOutput, clientFirst, gateVars,
                   modalVars, callVars, roleVars,
                   meetVars>>

\* The parent passes other props; the component renders again
PropsChange(p) ==
    /\ hydPc = "client"
    /\ p # props
    /\ props' = p
    /\ clientOutput' = Render(p, mounted, isClient)
    /\ UNCHANGED <<hydPc, serverOutput, clientFirst, mounted, isClient,
                   pendingEffects, gateVars, modalVars, callVars, roleVars,
                   meetVars>>

(* MeetingPage *)

MaxViews == 6

\* The calls useGetCallById can deliver for the page's id
MeetingCalls == { [id |-> CallId], [id |-> "call_2"] }

\* Faulty variant of MeetingPage: the room is rendered as soon as the call
\* is there
MeetingPageNoSetup ==
    IF ~isLoaded \/ isCallLoading THEN "LoaderUI"
    ELSE IF meetingCall = UndefinedObject THEN "Meeting not found"
    ELSE "MeetingRoom"

\* What a render of the page returns
MeetingPage ==
    IF ~isLoaded \/ isCallLoading THEN "LoaderUI"
    ELSE IF meetingCall = UndefinedObject THEN "Meeting not found"
    ELSE IF ~isSetupComplete THEN "MeetingSetup"
    ELSE "MeetingRoom"

\* The page renders again with the new values; a view that differs from the
\* one on screen is a new entry of the history, which is kept to MaxViews
RenderMeetingPage ==
    /\ meetingView' = MeetingPage'
    /\ views' = IF MeetingPage' = meetingView THEN views
                ELSE Append(views, MeetingPage')
    /\ Len(views') <= MaxViews

\* useUser(): the identity provider has loaded
UserLoaded ==
    /\ ~isLoaded
    /\ isLoaded' = TRUE
    /\ UNCHANGED <<isCallLoading, meetingCall, isSetupComplete>>
    /\ RenderMeetingPage
    /\ UNCHANGED <<gateVars, modalVars, callVars, roleVars, hydVars>>

\* useGetCallById(id) delivers other values: the hook is an input of the
\* page, any change of {call, isCallLoading} is possible
CallHookDelivers(c, loading) ==
    /\ <<c, loading>> # <<meetingCall, isCallLoading>>
    /\ meetingCall' = c
    /\ isCallLoading' = loading
    /\ UNCHANGED <<isLoaded, isSetupComplete>>
    /\ RenderMeetingPage
    /\ UNCHANGED <<gateVars, modalVars, callVars, roleVars, hydVars>>

\* MeetingSetup, on screen, calls onSetupComplete: setIsSetupComplete(true)
OnSetupComplete ==
    /\ meetingView = "MeetingSetup"
    /\ isSetupComplete' = TRUE
    /\ UNCHANGED <<isLoaded, isCallLoading, meetingCall>>
    /\ RenderMeetingPage
    /\ UNCHANGED <<gateVars, modalVars, callVars, roleVars, hydVars>>

----------------------------------------------------------------------------
(* Specifications *)

Init ==
    /\ gatePc = "idle"
    /\ request = NoRequest
    /\ response = NoResponse
    /\ decisions = 0
    /\ appReached = FALSE
    /\ isOpen = FALSE
    /\ isJoinMeeting = FALSE
    /\ meetingUrl = <<>>
    /\ last = NoClick
    /\ call = UndefinedObject
    /\ callEnded = FALSE
    /\ localParticipant = UndefinedObject
    /\ interview = UndefinedObject
    /\ interviewStatus = [id \in InterviewIds |-> "scheduled"]
    /\ inv = [i \in 1..MaxInvocations |-> IdleInvocation]
    /\ route = "/meeting"
    /\ toasts = <<>>
    /\ errorLog = 0
    /\ user = UndefinedObject
    /\ userData = UndefinedObject
    /\ userRecords = [u \in Users |-> NoRecord]
    /\ pathname = "/"
    /\ pendingPush = FALSE
    /\ lastRender = "unmounted"
    /\ hydPc = "request"
    /\ props = NoProps
    /\ serverOutput = NoOutput
    /\ clientFirst = NoOutput
    /\ clientOutput = NoOutput
    /\ mounted = FALSE
    /\ isClient = FALSE
    /\ pendingEffects = {}
    /\ isLoaded = FALSE
    /\ isCallLoading = TRUE
    /\ meetingCall = UndefinedObject
    /\ isSetupComplete = FALSE
    /\ meetingView = "LoaderUI"
    /\ views = << "LoaderUI" >>

NextGate ==
    \/ \E path \in Paths, cred \in Credentials : Receive(path, cred)
    \/ RunMiddleware
    \/ SkipMiddleware
    \/ Respond
    \/ Finish

NextModal ==
    \/ \E join \in BOOLEAN : Open(join)
    \/ \E text \in Texts : OnChange(text)
    \/ ClickStart
    \/ Cancel

NextEndCall ==
    \/ \E creator \in {UndefinedObject} \cup { [id |-> u] : u \in Users } :
           CallResolves(creator)
    \/ \E u \in Users : CreatedByLoads(u)
    \/ \E p \in {UndefinedObject} \cup { [userId |-> u] : u \in Users } :
           ParticipantChanges(p)
    \/ \E found \in BOOLEAN : QueryDelivers(found)
    \/ QueryLoading
    \/ \E id \in InterviewIds, status \in Statuses :
           DashboardUpdatesStatus(id, status)
    \/ \E i \in 1..MaxInvocations :
           \/ Click(i)
           \/ EndCallResolves(i)
           \/ EndCallRejects(i)
           \/ MutationResolves(i)
           \/ MutationRejects(i)

NextRole ==
    \/ \E u \in {NullObject} \cup { [id |-> x] : x \in Users } : UserChanges(u)
    \/ UserQueryDelivers
    \/ \E u \in Users, r \in Roles : RecordWritten(u, r)
    \/ VisitSchedule
    \/ NavigationCompletes

NextHydration ==
    \/ \E p \in VideoPlayerProps : ServerRender(p)
    \/ Hydrate
    \/ \E p \in VideoPlayerProps : ClientMount(p)
    \/ \E e \in { "VideoPlayer", "useIsClient" } : RunEffect(e)
    \/ \E p \in VideoPlayerProps : PropsChange(p)

NextMeeting ==
    \/ UserLoaded
    \/ \E c \in {UndefinedObject} \cup MeetingCalls, loading \in BOOLEAN :
           CallHookDelivers(c, loading)
    \/ OnSetupComplete

SpecGate      == Init /\ [][NextGate]_vars
SpecModal     == Init /\ [][NextModal]_vars
SpecEndCall   == Init /\ [][NextEndCall]_vars
SpecRole      == Init /\ [][NextRole]_vars
SpecHydration == Init /\ [][NextHydration]_vars
SpecMeeting   == Init /\ [][NextMeeting]_vars

----------------------------------------------------------------------------
(* Properties of the access gate, under SpecGate *)

RootPath    == <<"/">>
WebhookPath == <<"/", "a", "p", "i", "/", "w", "e", "b", "h", "o", "o", "k">>
ConvexPath  == <<"/", "a", "p", "i", "/", "c", "o", "n", "v", "e", "x">>
DashboardPath == <<"/", "d", "a", "s", "h", "b", "o", "a", "r", "d">>
ProfilePath == <<"/", "p", "r", "o", "f", "i", "l", "e">>

Answered == gatePc \in {"decided", "done"}

\* C1: every request under a protected prefix (/dashboard, /schedule,
\* /meeting, /recordings, with any suffix) that carries no valid session is
\* redirected and never reaches the application.
C1_ProtectedUnauthenticatedRedirected ==
    (gatePc = "done" /\ isProtectedRoute(request.path) /\ request.cred # "valid")
        => (response.kind = "redirect" /\ ~appReached)

\* C2: a request for "/" or for an ignored path (/api/webhook, /api/convex)
\* is forwarded whatever its credential, and never redirected.
C2_PublicAndIgnoredForwarded ==
    (Answered /\ request.path \in {RootPath, WebhookPath, ConvexPath})
        => /\ response.kind = "next"
           /\ gatePc = "done" => appReached

C2_Witness ==
    /\ gatePc = "done"
    /\ request = [path |-> RootPath, cred |-> "malformed"]
    /\ response.kind = "next"
    /\ appReached

\* What the gate answers to a request: the matcher, then the middleware
GateOutcome(path, cred) ==
    IF matcher(path) THEN authMiddleware(path, cred)
    ELSE [kind |-> "next", auth |-> Undefined, reason |-> "unmatched"]

C4_UnprotectedUnauthenticatedForwarded ==
    ( /\ gatePc = "done"
      /\ request.cred # "valid"
      /\ request.path \notin {RootPath, WebhookPath, ConvexPath}
      /\ ~isProtectedRoute(request.path) )
        => (response.kind = "next" /\ appReached)

\* C5: a request with a valid session is forwarded on every path and never
\* redirected; the middleware decides a request at most once, and exactly
\* once when the matcher selects the path.
C5_ValidSessionForwardedOnce ==
    /\ (Answered /\ request.cred = "valid")
           => /\ response.kind = "next"
              /\ gatePc = "done" => appReached
    /\ decisions <= 1
    /\ Answered => (decisions = 1 <=> matcher(request.path))

C5_Witness ==
    /\ gatePc = "done"
    /\ request = [path |-> DashboardPath, cred |-> "valid"]
    /\ response.kind = "next"
    /\ appReached
    /\ decisions = 1

\* C6: an ignored path gets one and the same answer for every credential,
\* forwarded with no authentication information attached, although the path
\* is not public and a signed-out request for it would otherwise be refused.
C6_IgnoredIndependentOfCredential ==
    (Answered /\ request.path \in {WebhookPath, ConvexPath})
        => /\ response = [kind |-> "next", auth |-> Undefined,
                          reason |-> "ignored-route"]
           /\ ~isPublicRoute(request.path)
           /\ gatePc = "done" => appReached

C6_Witness ==
    /\ gatePc = "done"
    /\ request = [path |-> ConvexPath, cred |-> "valid"]
    /\ response.auth = Undefined
    /\ appReached

----------------------------------------------------------------------------
(* Properties of the meeting modal, under SpecModal *)

\* The calls of one kind made by the latest click, in order
CallsOf(op) == SelectSeq(last.effects, LAMBDA e : e.op = op)

NoSlash(s) == \A j \in 1..Len(s) : s[j] # "/"

StartedJoin   == last.handler = "handleStart" /\ last.join
StartedCreate == last.handler = "handleStart" /\ ~last.join

\* C7: in join mode, when the text after the last "/" of the input (the whole
\* input when it has no "/") is not empty, handleStart calls joinMeeting
\* exactly once, with exactly that text, and never createInstantMeeting.
C7_JoinWithFinalSegment ==
    StartedJoin =>
        \A k \in 0..Len(last.url) :
            LET id == From(last.url, k + 1) IN
            (id # <<>> /\ NoSlash(id) /\ (k = 0 \/ last.url[k] = "/"))
                => /\ CallsOf("joinMeeting")
                          = << Effect("joinMeeting", << id >>) >>
                   /\ CallsOf("createInstantMeeting") = <<>>

C7_Witness ==
    /\ StartedJoin
    /\ last.url = <<"a", "/", "b">>
    /\ CallsOf("joinMeeting") = << Effect("joinMeeting", << <<"b">> >>) >>

\* C8: in join mode, when the input is empty or ends with "/", handleStart
\* shows the validation message exactly once and calls neither joinMeeting
\* nor createInstantMeeting, nor anything else that navigates or reaches a
\* service.
C8_EmptyFinalSegmentRejected ==
    (StartedJoin /\ (last.url = <<>> \/ last.url[Len(last.url)] = "/"))
        => /\ CallsOf("alert") = << Effect("alert", << ValidationMessage >>) >>
           /\ CallsOf("joinMeeting") = <<>>
           /\ CallsOf("createInstantMeeting") = <<>>
           /\ \A n \in 1..Len(last.effects) :
                  last.effects[n].op \in {"alert", "setMeetingUrl", "onClose"}

C8_Witness ==
    /\ StartedJoin
    /\ last.url = <<"a", "/">>
    /\ CallsOf("alert") = << Effect("alert", << ValidationMessage >>) >>
    /\ CallsOf("joinMeeting") = <<>>

\* C9: outside join mode handleStart calls createInstantMeeting exactly once,
\* with no argument, whatever the input text is, and never joinMeeting or
\* the validation message.
C9_InstantMeetingRegardlessOfText ==
    StartedCreate
        => /\ CallsOf("createInstantMeeting")
                  = << Effect("createInstantMeeting", <<>>) >>
           /\ CallsOf("joinMeeting") = <<>>
           /\ CallsOf("alert") = <<>>

C9_Witness ==
    /\ StartedCreate
    /\ last.url = <<"a", "/", "b">>
    /\ CallsOf("createInstantMeeting") = << Effect("createInstantMeeting", <<>>) >>

----------------------------------------------------------------------------
(* Properties of the end-call control, under SpecEndCall *)

\* The local participant is resolved and is not the call's recorded creator
NonCreator ==
    /\ localParticipant # UndefinedObject
    /\ \/ call = UndefinedObject
       \/ call.createdBy = UndefinedObject
       \/ call.createdBy.id # localParticipant.userId

Unresolved ==
    call = UndefinedObject \/ interview \in {UndefinedObject, NullObject}

\* C11: while the call or the interview record is not resolved (undefined or
\* null) the component returns null: it renders nothing and raises nothing.
\* (That it is rendered once both resolve, and gone again when the record
\* stops being resolved, is the reachable state C11_Witness.)
C11_NothingWhileUnresolved == Unresolved => EndCallButton = Null

\* The control was rendered and clicked, and is gone again because the
\* interview query is loading
C11_Witness ==
    /\ call # UndefinedObject
    /\ interview = UndefinedObject
    /\ inv[1].pc # "idle"
    /\ inv[1].by = "u1"
    /\ EndCallButton = Null

\* Position of the first x in steps, 0 when there is none
Pos(steps, x) ==
    IF \E n \in 1..Len(steps) : steps[n] = x
    THEN CHOOSE n \in 1..Len(steps) :
             steps[n] = x /\ \A m \in 1..(n - 1) : steps[m] # x
    ELSE 0

\* b happens only after a has happened
Before(steps, a, b) ==
    Pos(steps, b) > 0 => (Pos(steps, a) > 0 /\ Pos(steps, a) < Pos(steps, b))

Count(steps, x) == Cardinality({ n \in 1..Len(steps) : steps[n] = x })

\* C12: in one invocation the call is ended first, the mutation is requested
\* only after the end-call request has succeeded, and the navigation to "/"
\* happens only after the mutation has succeeded.
C12_EndCallThenMutationThenNavigate ==
    /\ \A i \in 1..MaxInvocations :
           LET st == inv[i].steps IN
           /\ Before(st, "call.endCall", "call.endCall:resolved")
           /\ Before(st, "call.endCall:resolved", "updateInterviewStatus")
           /\ Before(st, "updateInterviewStatus",
                     "updateInterviewStatus:resolved")
           /\ Before(st, "updateInterviewStatus:resolved", "router.push")
           /\ inv[i].mutation # NoMutation => callEnded
    /\ route = "/" => \E i \in 1..MaxInvocations : inv[i].pc = "done"

C12_Witness ==
    /\ route = "/"
    /\ callEnded
    /\ inv[1].steps = << "call.endCall", "call.endCall:resolved",
                         "updateInterviewStatus",
                         "updateInterviewStatus:resolved", "router.push",
                         "toast.success" >>

\* C13: when the end-call request or the mutation fails, the invocation
\* catches the error (its promise is fulfilled, not rejected), logs it and
\* shows the failure notification; it does not navigate and undoes nothing:
\* after a failed mutation the call is still ended and every interview
\* record keeps the status it had.
C13_FailureCaughtNoRollback ==
    [][ \A i \in 1..MaxInvocations :
            (inv[i].pc \in {"awaitEndCall", "awaitMutation"}
                 /\ inv'[i].pc = "failed")
            => /\ inv'[i].promise = "fulfilled"
               /\ errorLog' = errorLog + 1
               /\ toasts' = Append(toasts, "error")
               /\ Pos(inv'[i].steps, "router.push") = 0
               /\ route' = route
               /\ callEnded' = callEnded
               /\ interviewStatus' = interviewStatus
               /\ inv[i].pc = "awaitMutation" => callEnded'
      ]_vars

C13_Witness ==
    /\ inv[1].pc = "failed"
    /\ Pos(inv[1].steps, "updateInterviewStatus:rejected") > 0
    /\ callEnded
    /\ interviewStatus[InterviewId] = "scheduled"
    /\ toasts = << "error" >>
    /\ errorLog = 1
    /\ route = "/meeting"

\* C14: one invocation requests call.endCall at most once and the mutation
\* at most once, and after a rejection it makes no further external call
\* (only console.error and toast.error follow).
C14_NoRetry ==
    \A i \in 1..MaxInvocations :
        LET st == inv[i].steps IN
        /\ Count(st, "call.endCall") <= 1
        /\ Count(st, "updateInterviewStatus") <= 1
        /\ \A n \in 1..Len(st) :
               st[n] \in {"call.endCall:rejected",
                          "updateInterviewStatus:rejected"}
               => \A m \in (n + 1)..Len(st) :
                      st[m] \in {"console.error", "toast.error"}

C14_Witness ==
    /\ inv[1].pc = "failed"
    /\ inv[1].steps = << "call.endCall", "call.endCall:rejected",
                         "console.error", "toast.error" >>

----------------------------------------------------------------------------
(* Properties of role resolution and its consumers, under SpecRole *)

IdentityUnresolved == user = UndefinedObject
RecordUnresolved   == userData = UndefinedObject

\* C16: while the identity lookup or the user-record lookup is still
\* unresolved, the hook reports loading and neither role.
C16_LoadingUntilBothLookupsComplete ==
    (IdentityUnresolved \/ RecordUnresolved) =>
        /\ useUserRole.isLoading
        /\ ~useUserRole.isInterviewer
        /\ ~useUserRole.isCandidate

\* C17: once the hook has stopped loading it reports exactly one role:
\* interviewer when the record's role is "interviewer", candidate otherwise
\* (also with no user record).
C17_ExactlyOneRoleOnceLoaded ==
    ~useUserRole.isLoading =>
        /\ useUserRole.isInterviewer = (userDataRole = "interviewer")
        /\ useUserRole.isCandidate = ~useUserRole.isInterviewer

\* C18: while the hook reports loading, DashboardBtn renders nothing and the
\* schedule page, if on screen, has rendered the loader and not the render
\* that redirects.
C18_NothingGatedWhileLoading ==
    useUserRole.isLoading =>
        /\ DashboardBtn = Null
        /\ lastRender \in { "LoaderUI", "unmounted" }
        /\ pathname = "/schedule" => lastRender = "LoaderUI"

C18_Witness ==
    /\ useUserRole.isLoading
    /\ user \in { [id |-> x] : x \in Users }
    /\ userRecords[user.id] # NoRecord
    /\ pathname = "/schedule"
    /\ lastRender = "LoaderUI"
    /\ ~pendingPush

\* C19: the scheduling UI is on screen only for a resolved interviewer, and
\* for a resolved user who is not an interviewer the schedule page has
\* called router.push("/") instead of rendering the scheduling UI.
C19_ScheduleInterviewerOnly ==
    /\ lastRender = "InterviewScheduleUI" =>
           ~useUserRole.isLoading /\ useUserRole.isInterviewer
    /\ (pathname = "/schedule" /\ ~useUserRole.isLoading
            /\ ~useUserRole.isInterviewer) =>
           lastRender = "router.push(/)" /\ pendingPush

C19_Witness ==
    /\ pathname = "/schedule"
    /\ userDataRole = "candidate"
    /\ lastRender = "router.push(/)"
    /\ pendingPush

----------------------------------------------------------------------------
(* Properties of the hydration-safe render, under SpecHydration *)

IsPlaceholder(out) == out.video.tag = "div" /\ out.isClient = FALSE

\* The first render, in either environment, is the placeholder / false, and
\* the browser's first render equals the server's
FirstRenderIdentical ==
    /\ serverOutput # NoOutput => IsPlaceholder(serverOutput)
    /\ clientFirst # NoOutput => IsPlaceholder(clientFirst)
    /\ (serverOutput # NoOutput /\ clientFirst # NoOutput) =>
           clientFirst = serverOutput

\* The live element / true is on screen only once the mount effect has run
LiveOnlyAfterEffect ==
    /\ hydPc # "client" => clientOutput = NoOutput
    /\ hydPc = "client" =>
           /\ (clientOutput.video.tag = "video") =
                  ("VideoPlayer" \notin pendingEffects)
           /\ clientOutput.isClient = ("useIsClient" \notin pendingEffects)

\* Once set, the two states are never reset
NeverBackToPlaceholder ==
    /\ mounted => mounted'
    /\ isClient => isClient'
    /\ (clientOutput # NoOutput /\ clientOutput.video.tag = "video") =>
           clientOutput'.video.tag = "video"

\* C20: the first render is the placeholder / false on server and browser
\* alike, so the two first renders are identical; the video element / true
\* appears only after the mount effect has run; and once mounted the state
\* never returns to the placeholder / false.
C20_TwoPhaseRender ==
    /\ [](FirstRenderIdentical /\ LiveOnlyAfterEffect)
    /\ [][NeverBackToPlaceholder]_vars

C20_Witness ==
    /\ serverOutput # NoOutput
    /\ clientFirst = serverOutput
    /\ clientOutput.video.tag = "video"
    /\ clientOutput.isClient
    /\ clientOutput.video.src = props.src
    /\ pendingEffects = {}

----------------------------------------------------------------------------
(* Properties of the meeting page, under SpecMeeting *)

BothLoaded == isLoaded /\ ~isCallLoading

\* The view on screen is the one the page's conditions select
ViewFollowsConditions ==
    /\ meetingView = views[Len(views)]
    /\ ~BothLoaded => meetingView = "LoaderUI"
    /\ BothLoaded =>
           /\ (meetingView = "Meeting not found") =
                  (meetingCall = UndefinedObject)
           /\ meetingCall # UndefinedObject =>
                  meetingView = IF isSetupComplete THEN "MeetingRoom"
                                ELSE "MeetingSetup"

\* The history starts with the loader, and the room comes only after the
\* setup screen, never before it and never followed by it
RoomOnlyAfterSetup ==
    /\ views[1] = "LoaderUI"
    /\ \A i \in 1..Len(views) :
           views[i] = "MeetingRoom" =>
               /\ isSetupComplete
               /\ \E j \in 1..(i - 1) : views[j] = "MeetingSetup"
               /\ \A k \in (i + 1)..Len(views) : views[k] # "MeetingSetup"

----------------------------------------------------------------------------
(* The matcher, under SpecGate *)

\* The path begins with /_next
UnderNext(path) == StartsWith(path, <<"/", "_", "n", "e", "x", "t">>)

\* The path begins with /api or /trpc
UnderApi(path) ==
    \E prefix \in { <<"/", "a", "p", "i">>, <<"/", "t", "r", "p", "c">> } :
        StartsWith(path, prefix)

\* Somewhere in the path a dot is followed by a static-file extension: one
\* of the listed ones, or js that does not go on as json
ContainsStaticExtension(path) ==
    \E i \in 1..Len(path) :
        /\ path[i] = "."
        /\ \/ \E ext \in StaticExtensions :
                  /\ i + Len(ext) <= Len(path)
                  /\ SubSeq(path, i + 1, i + Len(ext)) = ext
           \/ /\ i + 2 <= Len(path)
              /\ SubSeq(path, i + 1, i + 2) = <<"j", "s">>
              /\ ~(/\ i + 4 <= Len(path)
                   /\ SubSeq(path, i + 3, i + 4) = <<"o", "n">>)

ApiScriptPath == <<"/", "a", "p", "i", "/", "x", ".", "j", "s">>

\* C22: the gate is executed for every path but those under _next and those
\* containing a static-file extension (.js but not .json), and always for a
\* path under /api or /trpc; a request the matcher skips reaches the
\* application with no authentication decision.
C22_MatcherSelectsGate ==
    Answered =>
        /\ (decisions = 1) =
               (\/ UnderApi(request.path)
                \/ ~(UnderNext(request.path)
                       \/ ContainsStaticExtension(request.path)))
        /\ decisions = 0 =>
               /\ response = [kind |-> "next", auth |-> Undefined,
                              reason |-> "unmatched"]
               /\ gatePc = "done" => appReached

C22_Witness ==
    /\ gatePc = "done"
    /\ request = [path |-> ApiScriptPath, cred |-> "absent"]
    /\ decisions = 1
    /\ response.kind # "next"
    /\ ~appReached

----------------------------------------------------------------------------
(* Further properties of the end-call control, under SpecEndCall *)

\* C23: the End Meeting control is not rendered while the local participant
\* or the call's creator is unresolved.
C23_NotRenderedWhileUnresolved ==
    Rendered =>
        /\ localParticipant # UndefinedObject
        /\ call.createdBy # UndefinedObject

\* The invocations awaiting the video client or the data client
InFlight == { i \in 1..MaxInvocations :
                  inv[i].pc \in {"awaitEndCall", "awaitMutation"} }

\* How many invocations have issued x
Issued(x) == Cardinality({ i \in 1..MaxInvocations :
                               Count(inv[i].steps, x) > 0 })

\* C24: at most one end-call sequence is in flight at a time, and while
\* one is, the end-call request and the status mutation have each been
\* issued at most once.
C24_OneSequenceInFlight ==
    /\ Cardinality(InFlight) <= 1
    /\ InFlight # {} =>
           /\ Issued("call.endCall") <= 1
           /\ Issued("updateInterviewStatus") <= 1

Completed(i) == inv[i].pc \in {"done", "failed"}

\* The notifications an invocation has shown
Notifications(st) == Count(st, "toast.success") + Count(st, "toast.error")

\* A completed invocation has shown one notification, the success one only
\* after all three of its calls succeeded
OneNotificationEach ==
    /\ \A i \in 1..MaxInvocations :
           LET st == inv[i].steps IN
           /\ Completed(i) => Notifications(st) = 1
           /\ ~Completed(i) => Notifications(st) = 0
           /\ Count(st, "toast.success") = 1 =>
                  /\ Before(st, "call.endCall:resolved", "toast.success")
                  /\ Before(st, "updateInterviewStatus:resolved",
                            "toast.success")
                  /\ Before(st, "router.push", "toast.success")
           /\ Count(st, "toast.error") = 1 =>
                  \/ Count(st, "call.endCall:rejected") = 1
                  \/ Count(st, "updateInterviewStatus:rejected") = 1
    /\ Len(toasts) = Cardinality({ i \in 1..MaxInvocations : Completed(i) })

\* The step that shows the success notification leaves the invocation's
\* record completed and the route at "/"
SuccessOnlyWhenCompleted ==
    (Len(toasts') > Len(toasts) /\ toasts'[Len(toasts')] = "success") =>
        /\ interviewStatus'[InterviewId] = "completed"
        /\ route' = "/"
        /\ callEnded'

\* C25: every end-call invocation that completes shows exactly one
\* notification: the success one only if ending the call, the mutation and
\* the navigation all succeeded, the failure one otherwise; the success
\* notification is not shown when the record was not marked completed.
C25_ExactlyOneNotification ==
    /\ []OneNotificationEach
    /\ [][SuccessOnlyWhenCompleted]_vars

C25_Witness ==
    /\ toasts = << "error", "success" >>
    /\ inv[1].pc = "failed"
    /\ inv[2].pc = "done"
    /\ interviewStatus[InterviewId] = "completed"

----------------------------------------------------------------------------
(* A further property of role resolution, under SpecRole *)

\* C26: DashboardBtn renders the dashboard link only for a user whose
\* resolved role is interviewer, and nothing for every other resolved user,
\* also one with no user record.
C26_DashboardLinkInterviewerOnly ==
    (DashboardBtn # Null) =
        (~useUserRole.isLoading /\ userDataRole = "interviewer")

----------------------------------------------------------------------------
(* Further properties of the meeting modal, under SpecModal *)

\* C27: joinMeeting is never called with a blank id: a final segment of
\* whitespace only is rejected like an empty one.
C27_NoBlankMeetingId ==
    \A n \in 1..Len(last.effects) :
        last.effects[n].op = "joinMeeting" =>
            trim(last.effects[n].args[1]) # <<>>

BranchOps == { "joinMeeting", "createInstantMeeting", "alert" }

\* The calls of one handleStart: one branch action, then the reset of the
\* text, then onClose
BranchThenResetThenClose ==
    last.handler = "handleStart" =>
        /\ Len(last.effects) = 3
        /\ last.effects[1].op \in BranchOps
        /\ last.effects[2] = Effect("setMeetingUrl", << <<>> >>)
        /\ last.effects[3] = Effect("onClose", <<>>)
        /\ last.effects[1].op = "createInstantMeeting" <=> ~last.join

\* The step of handleStart: it runs on the open modal and leaves the text
\* empty and the modal closed
StartStep == isOpen /\ last'.handler = "handleStart" /\ ~isOpen'

\* C28: every handleStart, whichever branch it takes, does exactly one of
\* joinMeeting, createInstantMeeting or the validation message, then resets
\* the text to empty and calls onClose exactly once.
C28_AlwaysResetAndClose ==
    /\ []BranchThenResetThenClose
    /\ [][StartStep => meetingUrl' = <<>>]_vars

C28_Witness ==
    /\ last.handler = "handleStart"
    /\ last.join
    /\ last.url = <<"a", "/">>
    /\ last.effects[1].op = "alert"
    /\ meetingUrl = <<>>
    /\ ~isOpen

\* The step of a cancel or dismissal
CancelStep == isOpen /\ last'.handler = "onClose" /\ ~isOpen'

\* C29: cancelling or dismissing the modal calls onClose only and leaves the
\* typed text as it is; among the steps that open or close the modal, only
\* handleStart changes the text, to empty.
C29_CancelOnlyCloses ==
    [][ /\ CancelStep =>
               /\ last'.effects = << Effect("onClose", <<>>) >>
               /\ meetingUrl' = meetingUrl
        /\ (isOpen' # isOpen /\ meetingUrl' # meetingUrl) =>
               (StartStep /\ meetingUrl' = <<>>) ]_vars

C29_Witness ==
    /\ last.handler = "onClose"
    /\ ~isOpen
    /\ last.url = <<"a", "/", "b">>
    /\ meetingUrl = last.url

====
